---- MODULE Spec2Model ----
(***************************************************************************)
(* A model of forest's gas estimation RPC (node/rpc/src/gas_api.rs) and of *)
(* the mainnet snapshot fetcher (forest/src/cli/snapshot_fetch.rs).        *)
(*                                                                         *)
(* Spec     : one RPC request (GasEstimateFeeCap, GasEstimateGasPremium,   *)
(*            GasEstimateGasLimit or GasEstimateMessageGas) served against *)
(*            a chain store, a message pool and an executor, next to a     *)
(*            writer of the message pool's cur_tipset.                     *)
(* SnapSpec : one run of snapshot_fetch_mainnet.                           *)
(*                                                                         *)
(* Option<T> is a sequence of length at most one: None is <<>>, Some(x) is *)
(* <<x>>.  BigInt values are integers; every value of the model stays      *)
(* inside TLC's integer range, so BigInt arithmetic is exact here.  The    *)
(* product premium * N with N near 2^32 is computed in two limbs (Jitter). *)
(***************************************************************************)
EXTENDS Integers, Sequences, FiniteSets, TLC

VARIABLES
    req,            \* the RPC request: method and parameters
    heaviest,       \* chain_store().heaviest_tipset(): Option<Tipset>
    pc,             \* position of the request's task
    caller,         \* "rpc" or "composer": who awaits the running estimator
    msg,            \* the handler's `msg` (mutable in estimate_message_gas)
    rpc,            \* the handler's Result
    calls,          \* history: estimators invoked, in order
    touched,        \* history: collaborators read so far
    failed_in,      \* history: the estimator whose `?` returned the error
    faults,         \* history: the collaborator calls that failed
    max_queue_blks, \* estimate_fee_cap's argument
    nblocksincl,    \* estimate_gas_premium's (clamped) argument, bits 0..62
    prices,         \* estimate_gas_premium: Vec<GasMeta>
    blocks,         \* estimate_gas_premium: blocks counted
    ts,             \* estimate_gas_premium: epoch of the current tipset
    iter,           \* estimate_gas_premium: iterations of the for loop done
    premium,        \* estimate_gas_premium: premium before the jitter
    path,           \* history: which way the sweep ended
    noise,          \* history: the noise drawn (offset of N from 2^32)
    sim_msg,        \* estimate_gas_limit: the message handed to the executor
    prior_messages, \* estimate_gas_limit: the sender's pending messages
    res,            \* estimate_gas_limit: call_with_gas's Ok value
    cur_tipset,     \* mpool.cur_tipset's value (the number of the head it holds)
    readers,        \* read guards alive on mpool.cur_tipset
    writer,         \* the write guard on mpool.cur_tipset is held
    exec_ts,        \* the tipset handed to call_with_gas
    snap            \* the state of snapshot_fetch_mainnet (SnapSpec)

gasvars == <<req, heaviest, pc, caller, msg, rpc, calls, touched, failed_in, faults,
             max_queue_blks, nblocksincl, prices, blocks, ts, iter, premium,
             path, noise, sim_msg, prior_messages, res, cur_tipset, readers,
             writer, exec_ts>>
vars == <<gasvars, snap>>

-----------------------------------------------------------------------------
(* Bounds of the model *)

\* the heaviest tipset's epoch is at most this
MaxEpoch == 3
\* GasEstimateFeeCap is asked with max_queue_blks in -2..MaxQueueBlks
MaxQueueBlks == 3
\* GasEstimateGasPremium is asked with nblocksincl in 0..MaxNBlocksIncl
MaxNBlocksIncl == 3
\* the message pool replaces cur_tipset at most this often during a request
MaxHeadChanges == 1
\* the snapshot arrives in at most this many chunks
MaxChunks == 2
\* bytes of a digest (Sha256::output_size() is 32)
DigestLen == 1

-----------------------------------------------------------------------------
(* Program constants *)

MIN_GAS_PREMIUM == 100000
precision == 32
\* forest_chain / fvm_shared constants.  BLOCK_GAS_TARGET is counted in a
\* coarser gas unit than mainnet's, so that a handful of messages fills a
\* block; the gas limits of the sampled messages are in the same unit.
BASE_FEE_MAX_CHANGE_DENOM == 8
BLOCK_GAS_TARGET == 2
BLOCK_GAS_LIMIT == 2 * BLOCK_GAS_TARGET
MINIMUM_BASE_FEE == 100
\* estimate_message_gas's arguments to the estimators
ComposerNBlocksIncl == 10
ComposerMaxQueueBlks == 20
\* estimate_gas_limit's over-estimation buffer
GasLimitBuffer == 200000

-----------------------------------------------------------------------------
(* Inputs *)

None == <<>>
Some(x) == <<x>>

Methods == {"GasEstimateFeeCap", "GasEstimateGasPremium",
            "GasEstimateGasLimit", "GasEstimateMessageGas"}

\* a message; the non-gas fields are opaque to the estimators
Message(gl, gfc, gp) ==
    [from |-> "f1sender", to |-> "f1receiver", value |-> 42, method_num |-> 2,
     params |-> "params", sequence |-> 5,
     gas_limit |-> gl, gas_fee_cap |-> gfc, gas_premium |-> gp]

GasLimits == {0, -1, 500000}
GasFeeCaps == {0, 9}
GasPremiums == {0, 7}
Messages == {Message(gl, gfc, gp) : gl \in GasLimits, gfc \in GasFeeCaps, gp \in GasPremiums}

Requests ==
    {[method |-> "GasEstimateFeeCap", msg |-> Message(0, 0, gp), max_queue_blks |-> q, nblocksincl |-> 0,
      nblocksincl_top |-> 0] :
        gp \in GasPremiums, q \in -2 .. MaxQueueBlks}
    \cup
    {[method |-> "GasEstimateGasPremium", msg |-> Message(0, 0, 0), max_queue_blks |-> 0, nblocksincl |-> n,
      nblocksincl_top |-> b] :
        n \in 0 .. MaxNBlocksIncl, b \in {0, 1}}
    \cup
    {[method |-> "GasEstimateGasLimit", msg |-> Message(0, 0, 0), max_queue_blks |-> 0, nblocksincl |-> 0,
      nblocksincl_top |-> 0]}
    \cup
    {[method |-> "GasEstimateMessageGas", msg |-> m, max_queue_blks |-> 0, nblocksincl |-> 0,
      nblocksincl_top |-> 0] :
        m \in Messages}

\* nblocksincl is a u64: the model carries it as bit 63 (nblocksincl_top) and
\* bits 0..62 (nblocksincl, a small number here), the value being
\* nblocksincl_top * 2^63 + nblocksincl.  Bit 63 comes with the request and
\* no statement changes it; estimate_message_gas passes 10.
NBlocksInclTop ==
    IF req.method = "GasEstimateGasPremium" THEN req.nblocksincl_top ELSE 0

\* the chain: the tipset of epoch e, as far as the estimators read it, with
\* the parent_base_fee of its first block; its parent is the tipset of e - 1
BaseFeeAt(e) == IF e % 2 = 0 THEN MINIMUM_BASE_FEE ELSE 1001 + e
Tipsets == {[epoch |-> e, parent_base_fee |-> BaseFeeAt(e)] : e \in 0 .. MaxEpoch}

\* what the chain store holds for a parent tipset: its blocks and messages
GasMeta(p, l) == [price |-> p, limit |-> l]
MsgLists == {<<>>, <<GasMeta(5, 2)>>, <<GasMeta(1, 1)>>, <<GasMeta(1, 2)>>, <<GasMeta(0, 1)>>}
BlockCounts == {1, 2}

\* the fixed-point image N of the noise, as N - 2^precision:
\* noise 0.98, 0.99, 0.995, 1.0, 1.005, 1.01, 1.02
NoiseBand == {-42949673, -21474837, 0, 21474836, 42949672}
Noises == NoiseBand \cup {-85899346, 85899345}

\* the executor's receipts
Receipts == {[exit_code |-> 0, gas_used |-> 0], [exit_code |-> 0, gas_used |-> 100000],
             [exit_code |-> 1, gas_used |-> 100000]}
\* mpool.pending_for(sender)
Pendings == {None, Some(<<>>), Some(<<"sm5", "sm6">>)}

-----------------------------------------------------------------------------
(* Pure functions *)

RECURSIVE Pow(_, _)
Pow(b, n) == IF n = 0 THEN 1 ELSE b * Pow(b, n - 1)

\* BigInt::from_f64(increase_factor * (1 << 8) as f64): the integer part of
\* (1 + 1/BASE_FEE_MAX_CHANGE_DENOM)^n * 2^8.  The power is formed exactly
\* for |n| <= 7; for n = 20, estimate_message_gas's argument, the value of
\* 1.125^20 * 256 = 2699.54... is written out.
IncreaseFactor(n) ==
    LET num == BASE_FEE_MAX_CHANGE_DENOM + 1
        den == BASE_FEE_MAX_CHANGE_DENOM
    IN  IF n = 20 THEN 2699
        ELSE IF n >= 0 THEN (Pow(num, n) * Pow(2, 8)) \div Pow(den, n)
        ELSE (Pow(den, -n) * Pow(2, 8)) \div Pow(num, -n)

\* a slip: the premium is added before the shift
FeeCap_premium_before_shift(parent_base_fee, gas_premium, n) ==
    (parent_base_fee * IncreaseFactor(n) + gas_premium) \div Pow(2, 8)

\* estimate_fee_cap, lines 58-67: fee_in_future / (1 << 8) + msg.gas_premium
FeeCap(parent_base_fee, gas_premium, n) ==
    LET fee_in_future == parent_base_fee * IncreaseFactor(n)
    IN  (fee_in_future \div Pow(2, 8)) + gas_premium

\* Vec::sort_by(|a, b| b.price.cmp(&a.price)): a stable sort, highest price
\* first.  InsertByPrice puts x behind every element whose price is >= x's.
RECURSIVE InsertByPrice(_, _)
InsertByPrice(sorted, x) ==
    IF sorted = <<>> THEN <<x>>
    ELSE IF Head(sorted).price >= x.price
         THEN <<Head(sorted)>> \o InsertByPrice(Tail(sorted), x)
         ELSE <<x>> \o sorted

RECURSIVE SortByPrice(_)
SortByPrice(ps) ==
    IF ps = <<>> THEN <<>>
    ELSE InsertByPrice(SortByPrice(SubSeq(ps, 1, Len(ps) - 1)), ps[Len(ps)])

\* the `for price in prices` loop, from element i on.  returned: the loop
\* left the function with `return Ok(price.price + 1)`.
RECURSIVE SweepFrom(_, _, _, _, _)
SweepFrom(ps, i, at, prev, prem) ==
    IF i > Len(ps) THEN [returned |-> FALSE, premium |-> prem]
    ELSE LET at2 == at - ps[i].limit
         IN  IF at2 > 0 THEN SweepFrom(ps, i + 1, at2, ps[i].price, prem)
             ELSE IF prev = 0 THEN [returned |-> TRUE, premium |-> ps[i].price + 1]
             ELSE SweepFrom(ps, i + 1, at2, prev, ((ps[i].price + prev) \div 2) + 1)

\* lines 136-153
Sweep(ps, nblocks) ==
    SweepFrom(SortByPrice(ps), 1, (BLOCK_GAS_TARGET * nblocks) \div 2, 0, 0)

\* a slip: the rows of 1 and 2 are exchanged
FallbackPremium_rows_exchanged(n) ==
    CASE NBlocksInclTop = 0 /\ n = 1 -> (MIN_GAS_PREMIUM * 3) \div 2
      [] NBlocksInclTop = 0 /\ n = 2 -> MIN_GAS_PREMIUM * 2
      [] OTHER -> MIN_GAS_PREMIUM

\* lines 156-160: MIN_GAS_PREMIUM * 2.0, * 1.5, * 1.0 as a BigInt; the
\* match is on the whole u64
FallbackPremium(n) ==
    CASE NBlocksInclTop = 0 /\ n = 1 -> MIN_GAS_PREMIUM * 2
      [] NBlocksInclTop = 0 /\ n = 2 -> (MIN_GAS_PREMIUM * 3) \div 2
      [] OTHER -> MIN_GAS_PREMIUM

\* lines 171-173: premium * N / 2^precision for N = 2^precision + d, d the
\* drawn noise.  N itself is beyond TLC's integers, so the product is formed
\* in two limbs of d = dh * 2^13 + dl, 0 <= dl < 2^13:
\*   p * N \div 2^32 = p + (p * dh + (p * dl \div 2^13)) \div 2^(32 - 13)
Jitter(p, d) ==
    LET dh == d \div Pow(2, 13)
        dl == d % Pow(2, 13)
    IN  p + ((p * dh + ((p * dl) \div Pow(2, 13))) \div Pow(2, precision - 13))

\* lines 93-95: the whole u64 is compared with 0
ClampNBlocksIncl(n) == IF NBlocksInclTop = 0 /\ n = 0 THEN 1 ELSE n

\* line 112, nblocksincl * 2 in u64 where the product wraps: bit 63 is
\* shifted out, (top * 2^63 + n) * 2 % 2^64 = n * 2 for n < 2^62
WrappingMul2(n) == n * 2
\* line 112: the product nblocksincl * 2 does not fit u64
Mul2Overflows == NBlocksInclTop = 1

\* a slip: the exit code is not looked at
GasLimitOf_exit_code_ignored(msg_rct) ==
    IF msg_rct = None THEN -1 ELSE msg_rct[1].gas_used + GasLimitBuffer

\* lines 229-239: the match on res.msg_rct
GasLimitOf(msg_rct) ==
    IF msg_rct = None THEN -1
    ELSE IF msg_rct[1].exit_code # 0 THEN -1
    ELSE msg_rct[1].gas_used + GasLimitBuffer

\* lines 200-203: the message estimate_gas_limit hands to the executor
SimulatedMessage(m) ==
    [m EXCEPT !.gas_limit = BLOCK_GAS_LIMIT,
              !.gas_fee_cap = MINIMUM_BASE_FEE + 1,
              !.gas_premium = 1]

-----------------------------------------------------------------------------
(* The request *)

premvars == <<nblocksincl, prices, blocks, ts, iter, premium, path, noise>>
limvars == <<sim_msg, prior_messages, res, exec_ts>>
lockvars == <<cur_tipset, readers, writer>>
envvars == <<req, heaviest, snap>>

SnapIdle ==
    [pc |-> "idle", result |-> "pending", err |-> "", file |-> None, had_file |-> FALSE,
     stream |-> <<>>, body |-> <<>>, hasher |-> <<>>, snapshot_checksum |-> None,
     checksum_file |-> None, validated |-> FALSE]

Pending == [status |-> "pending", err |-> "", value |-> 0, message |-> None]


Init ==
    /\ req \in Requests
    /\ heaviest \in {None} \cup {Some(t) : t \in Tipsets}
    /\ pc = "start"
    /\ caller = "rpc"
    /\ msg = req.msg
    /\ rpc = Pending
    /\ calls = <<>>
    /\ touched = {}
    /\ failed_in = ""
    /\ faults = {}
    /\ max_queue_blks = 0
    /\ nblocksincl = 0
    /\ prices = <<>>
    /\ blocks = 0
    /\ ts = 0
    /\ iter = 0
    /\ premium = 0
    /\ path = "none"
    /\ noise = 0
    /\ sim_msg = None
    /\ prior_messages = <<>>
    /\ res = None
    /\ cur_tipset = 0
    /\ readers = 0
    /\ writer = FALSE
    /\ exec_ts = None
    /\ snap = SnapIdle

\* an estimator returns Ok(v): to the RPC handler, which returns it, or to
\* estimate_message_gas, which stores it in msg.<field> and goes on at next
ReturnOk(field, v, next) ==
    /\ failed_in' = failed_in
    /\ faults' = faults
    /\ IF caller = "rpc"
       THEN /\ rpc' = [rpc EXCEPT !.status = "ok", !.value = v]
            /\ pc' = "done"
            /\ msg' = msg
       ELSE /\ msg' = [msg EXCEPT ![field] = v]
            /\ pc' = next
            /\ rpc' = rpc

\* the collaborator call `fault` of estimator `who` fails and `?` returns
\* Err(e); `?` in estimate_message_gas hands it on
ReturnErr(e, who, fault) ==
    /\ rpc' = [rpc EXCEPT !.status = "err", !.err = e]
    /\ faults' = faults \cup {fault}
    /\ pc' = "done"
    /\ msg' = msg
    /\ failed_in' = who

(* estimate_fee_cap *)

CallFeeCap(n) ==
    /\ pc' = "fc"
    /\ max_queue_blks' = n
    /\ calls' = Append(calls, "estimate_fee_cap")

gas_estimate_fee_cap ==
    /\ pc = "start"
    /\ req.method = "GasEstimateFeeCap"
    /\ CallFeeCap(req.max_queue_blks)
    /\ UNCHANGED <<envvars, caller, msg, rpc, touched, failed_in, faults, premvars, limvars, lockvars>>

\* a slip: the fee cap is taken from the premium of the request
estimate_fee_cap_request_premium ==
    /\ pc = "fc"
    /\ touched' = touched \cup {"chain_store"}
    /\ IF heaviest = None
       THEN ReturnErr("can't find heaviest tipset", "estimate_fee_cap", "heaviest_tipset")
       ELSE ReturnOk("gas_fee_cap",
                     FeeCap(heaviest[1].parent_base_fee, req.msg.gas_premium, max_queue_blks),
                     "mg_return")
    /\ UNCHANGED <<envvars, caller, calls, max_queue_blks, premvars, limvars, lockvars>>

\* BigInt::from_f64 fails on a NaN or infinite factor only, which no
\* max_queue_blks of the model gives.
estimate_fee_cap ==
    /\ pc = "fc"
    /\ touched' = touched \cup {"chain_store"}
    /\ IF heaviest = None
       THEN ReturnErr("can't find heaviest tipset", "estimate_fee_cap", "heaviest_tipset")
       ELSE ReturnOk("gas_fee_cap",
                     FeeCap(heaviest[1].parent_base_fee, msg.gas_premium, max_queue_blks),
                     "mg_return")
    /\ UNCHANGED <<envvars, caller, calls, max_queue_blks, premvars, limvars, lockvars>>

(* estimate_gas_premium *)

CallGasPremium(n) ==
    /\ pc' = "gp_head"
    /\ nblocksincl' = ClampNBlocksIncl(n)
    /\ prices' = <<>>
    /\ blocks' = 0
    /\ calls' = Append(calls, "estimate_gas_premium")

gas_estimate_gas_premium ==
    /\ pc = "start"
    /\ req.method = "GasEstimateGasPremium"
    /\ CallGasPremium(req.nblocksincl)
    /\ UNCHANGED <<envvars, caller, msg, rpc, touched, failed_in, faults, max_queue_blks,
                   ts, iter, premium, path, noise, limvars, lockvars>>

\* lines 105-110
gp_heaviest_tipset ==
    /\ pc = "gp_head"
    /\ touched' = touched \cup {"chain_store"}
    /\ IF heaviest = None
       THEN /\ ReturnErr("cant get heaviest tipset", "estimate_gas_premium", "heaviest_tipset")
            /\ UNCHANGED <<ts, iter>>
       ELSE /\ pc' = "gp_loop"
            /\ ts' = heaviest[1].epoch
            /\ iter' = 0
            /\ UNCHANGED <<msg, rpc, failed_in, faults>>
    /\ UNCHANGED <<envvars, caller, calls, max_queue_blks, nblocksincl, prices,
                   blocks, premium, path, noise, limvars, lockvars>>

\* the loop goes round once more: lines 112-115
LoopContinues == iter < WrappingMul2(nblocksincl) /\ ts # 0

\* line 112: the range 0..(nblocksincl * 2) is formed once, before the first
\* iteration and before the epoch is looked at.  A build with overflow
\* checks panics when the product does not fit u64 and the request's task
\* ends without a result; a build without them wraps and goes on
\* (gp_loop_step, gp_sweep).
gp_range_overflow_panic ==
    /\ pc = "gp_loop"
    /\ iter = 0
    /\ ts = heaviest[1].epoch
    /\ Mul2Overflows
    /\ pc' = "panicked"
    /\ prices' = <<>>
    /\ blocks' = 0
    /\ UNCHANGED <<envvars, caller, msg, rpc, calls, touched, failed_in, faults,
                   max_queue_blks, nblocksincl, ts, iter, premium, path, noise,
                   limvars, lockvars>>

\* lines 116-133, the store answering: the parent tipset is one epoch below
gp_loop_step ==
    /\ pc = "gp_loop"
    /\ LoopContinues
    /\ \E b \in BlockCounts, m \in MsgLists :
          /\ blocks' = blocks + b
          /\ prices' = prices \o m
    /\ ts' = ts - 1
    /\ iter' = iter + 1
    /\ UNCHANGED <<envvars, pc, caller, msg, rpc, calls, touched, failed_in, faults,
                   max_queue_blks, nblocksincl, premium, path, noise, limvars, lockvars>>

\* lines 116-120: tipset_from_keys(ts.parents()).await? fails; returning
\* drops the samples and the block count
gp_tipset_from_keys_err ==
    /\ pc = "gp_loop"
    /\ LoopContinues
    /\ ReturnErr("tipset_from_keys failed", "estimate_gas_premium", "tipset_from_keys")
    /\ prices' = <<>>
    /\ blocks' = 0
    /\ UNCHANGED <<envvars, caller, calls, touched, max_queue_blks, nblocksincl,
                   ts, iter, premium, path, noise, limvars, lockvars>>

\* a slip: a tipset whose messages cannot be read is skipped
gp_messages_for_tipset_err_skipped ==
    /\ pc = "gp_loop"
    /\ LoopContinues
    /\ faults' = faults \cup {"messages_for_tipset"}
    /\ \E b \in BlockCounts : blocks' = blocks + b
    /\ ts' = ts - 1
    /\ iter' = iter + 1
    /\ UNCHANGED <<envvars, pc, caller, msg, rpc, calls, touched, failed_in,
                   max_queue_blks, nblocksincl, prices, premium, path, noise,
                   limvars, lockvars>>

\* line 122: messages_for_tipset(..)? fails; returning drops the samples and
\* the block count
gp_messages_for_tipset_err ==
    /\ pc = "gp_loop"
    /\ LoopContinues
    /\ ReturnErr("messages_for_tipset failed", "estimate_gas_premium", "messages_for_tipset")
    /\ prices' = <<>>
    /\ blocks' = 0
    /\ UNCHANGED <<envvars, caller, calls, touched, max_queue_blks, nblocksincl,
                   ts, iter, premium, path, noise, limvars, lockvars>>

\* lines 136-162: the loop is left; sort, sweep, fallback.  Returning drops
\* the vector of samples.
gp_sweep ==
    /\ pc = "gp_loop"
    /\ ~LoopContinues
    /\ LET sw == Sweep(prices, blocks)
       IN  IF sw.returned
           THEN /\ path' = "immediate"
                /\ premium' = sw.premium
                /\ prices' = <<>>
                /\ ReturnOk("gas_premium", sw.premium, "mg_fee_cap")
           ELSE /\ path' = IF sw.premium = 0 THEN "fallback" ELSE "midpoint"
                /\ premium' = IF sw.premium = 0 THEN FallbackPremium(nblocksincl)
                                                ELSE sw.premium
                /\ pc' = "gp_noise"
                /\ UNCHANGED <<msg, rpc, failed_in, faults, prices>>
    /\ UNCHANGED <<envvars, caller, calls, touched, max_queue_blks, nblocksincl,
                   blocks, ts, iter, noise, limvars, lockvars>>

\* lines 164-175: the noise is drawn and applied
gp_noise ==
    /\ pc = "gp_noise"
    /\ touched' = touched \cup {"thread_rng"}
    /\ \E d \in Noises :
          /\ noise' = d
          /\ ReturnOk("gas_premium", Jitter(premium, d), "mg_fee_cap")
    /\ prices' = <<>>
    /\ UNCHANGED <<envvars, caller, calls, max_queue_blks, nblocksincl,
                   blocks, ts, iter, premium, path, limvars, lockvars>>

(* estimate_gas_limit *)

CallGasLimit ==
    /\ pc' = "gl_head"
    /\ sim_msg' = Some(SimulatedMessage(msg))
    /\ calls' = Append(calls, "estimate_gas_limit")

gas_estimate_gas_limit ==
    /\ pc = "start"
    /\ req.method = "GasEstimateGasLimit"
    /\ CallGasLimit
    /\ UNCHANGED <<envvars, caller, msg, rpc, touched, failed_in, faults, max_queue_blks,
                   premvars, prior_messages, res, exec_ts, lockvars>>

\* lines 205-210
gl_heaviest_tipset ==
    /\ pc = "gl_head"
    /\ touched' = touched \cup {"chain_store"}
    /\ IF heaviest = None
       THEN ReturnErr("cant find the current heaviest tipset", "estimate_gas_limit", "heaviest_tipset")
       ELSE /\ pc' = "gl_resolve"
            /\ UNCHANGED <<msg, rpc, failed_in, faults>>
    /\ UNCHANGED <<envvars, caller, calls, max_queue_blks, premvars, limvars, lockvars>>

\* lines 211-214: resolve_to_key_addr(&msg.from, &curr_ts).await?
gl_resolve_to_key_addr ==
    /\ pc = "gl_resolve"
    /\ touched' = touched \cup {"state_manager"}
    /\ \/ ReturnErr("resolve_to_key_addr failed", "estimate_gas_limit", "resolve_to_key_addr")
       \/ /\ pc' = "gl_pending"
          /\ UNCHANGED <<msg, rpc, failed_in, faults>>
    /\ UNCHANGED <<envvars, caller, calls, max_queue_blks, premvars, limvars, lockvars>>

\* lines 216-219: pending_for(&from_a), None giving no prior messages
gl_pending_for ==
    /\ pc = "gl_pending"
    /\ touched' = touched \cup {"mpool"}
    /\ \E p \in Pendings : prior_messages' = IF p = None THEN <<>> ELSE p[1]
    /\ pc' = "gl_lock"
    /\ UNCHANGED <<envvars, caller, msg, rpc, calls, failed_in, faults, max_queue_blks,
                   premvars, sim_msg, res, exec_ts, lockvars>>

\* line 226: cur_tipset.read().await.clone(), the third argument of
\* call_with_gas.  The RwLockReadGuard is a temporary of the statement
\* `let res = ... .await?;` and is dropped when that statement ends, so the
\* guard is alive while call_with_gas runs.
gl_read_cur_tipset ==
    /\ pc = "gl_lock"
    /\ ~writer
    /\ readers' = readers + 1
    /\ exec_ts' = Some(cur_tipset)
    /\ touched' = touched \cup {"mpool"}
    /\ pc' = "gl_exec"
    /\ UNCHANGED <<envvars, caller, msg, rpc, calls, failed_in, faults, max_queue_blks,
                   premvars, sim_msg, prior_messages, res, cur_tipset, writer>>

\* lines 221-239: call_with_gas(..).await? ends, the statement ends and drops
\* the read guard; the receipt is matched and the function returns, which
\* drops its message, prior messages and tipset
gl_call_with_gas ==
    /\ pc = "gl_exec"
    /\ touched' = touched \cup {"executor"}
    /\ readers' = readers - 1
    /\ \/ /\ ReturnErr("call_with_gas failed", "estimate_gas_limit", "call_with_gas")
          /\ res' = res
       \/ \E rct \in {None} \cup {Some(r) : r \in Receipts} :
             /\ res' = Some([msg_rct |-> rct])
             /\ ReturnOk("gas_limit", GasLimitOf(rct), "mg_premium")
    /\ sim_msg' = None
    /\ prior_messages' = <<>>
    /\ exec_ts' = None
    /\ UNCHANGED <<envvars, caller, calls, max_queue_blks, premvars, cur_tipset, writer>>

(* estimate_message_gas *)

gas_estimate_message_gas ==
    /\ pc = "start"
    /\ req.method = "GasEstimateMessageGas"
    /\ pc' = "mg_limit"
    /\ caller' = "composer"
    /\ UNCHANGED <<envvars, msg, rpc, calls, touched, failed_in, faults, max_queue_blks,
                   premvars, limvars, lockvars>>

\* a slip: the sentinel -1 counts as not set
mg_gas_limit_sentinel_as_unset ==
    /\ pc = "mg_limit"
    /\ IF msg.gas_limit <= 0
       THEN CallGasLimit
       ELSE pc' = "mg_premium" /\ UNCHANGED <<sim_msg, calls>>
    /\ UNCHANGED <<envvars, caller, msg, rpc, touched, failed_in, faults, max_queue_blks,
                   premvars, prior_messages, res, exec_ts, lockvars>>

\* lines 268-271
mg_gas_limit ==
    /\ pc = "mg_limit"
    /\ IF msg.gas_limit = 0
       THEN CallGasLimit
       ELSE pc' = "mg_premium" /\ UNCHANGED <<sim_msg, calls>>
    /\ UNCHANGED <<envvars, caller, msg, rpc, touched, failed_in, faults, max_queue_blks,
                   premvars, prior_messages, res, exec_ts, lockvars>>

\* a slip: the premium is estimated whether or not it is set
mg_gas_premium_always ==
    /\ pc = "mg_premium"
    /\ CallGasPremium(ComposerNBlocksIncl)
    /\ UNCHANGED <<envvars, caller, msg, rpc, touched, failed_in, faults, max_queue_blks,
                   ts, iter, premium, path, noise, limvars, lockvars>>

\* lines 272-275
mg_gas_premium ==
    /\ pc = "mg_premium"
    /\ IF msg.gas_premium = 0
       THEN CallGasPremium(ComposerNBlocksIncl)
       ELSE pc' = "mg_fee_cap" /\ UNCHANGED <<nblocksincl, prices, blocks, calls>>
    /\ UNCHANGED <<envvars, caller, msg, rpc, touched, failed_in, faults, max_queue_blks,
                   ts, iter, premium, path, noise, limvars, lockvars>>

\* lines 276-279
mg_gas_fee_cap ==
    /\ pc = "mg_fee_cap"
    /\ IF msg.gas_fee_cap = 0
       THEN CallFeeCap(ComposerMaxQueueBlks)
       ELSE pc' = "mg_return" /\ UNCHANGED <<max_queue_blks, calls>>
    /\ UNCHANGED <<envvars, caller, msg, rpc, touched, failed_in, faults, premvars, limvars, lockvars>>

\* line 281
mg_return ==
    /\ pc = "mg_return"
    /\ rpc' = [rpc EXCEPT !.status = "ok", !.message = Some(msg)]
    /\ pc' = "done"
    /\ UNCHANGED <<envvars, caller, msg, calls, touched, failed_in, faults, max_queue_blks,
                   premvars, limvars, lockvars>>

(* the message pool's writer of cur_tipset *)

head_change_lock ==
    /\ ~writer
    /\ readers = 0
    /\ cur_tipset < MaxHeadChanges
    /\ writer' = TRUE
    /\ UNCHANGED <<envvars, pc, caller, msg, rpc, calls, touched, failed_in, faults,
                   max_queue_blks, premvars, limvars, cur_tipset, readers>>

head_change_store ==
    /\ writer
    /\ cur_tipset' = cur_tipset + 1
    /\ writer' = FALSE
    /\ UNCHANGED <<envvars, pc, caller, msg, rpc, calls, touched, failed_in, faults,
                   max_queue_blks, premvars, limvars, readers>>

Next ==
    \/ gas_estimate_fee_cap
    \/ estimate_fee_cap
    \/ gas_estimate_gas_premium
    \/ gp_heaviest_tipset
    \/ gp_range_overflow_panic
    \/ gp_loop_step
    \/ gp_tipset_from_keys_err
    \/ gp_messages_for_tipset_err
    \/ gp_sweep
    \/ gp_noise
    \/ gas_estimate_gas_limit
    \/ gl_heaviest_tipset
    \/ gl_resolve_to_key_addr
    \/ gl_pending_for
    \/ gl_read_cur_tipset
    \/ gl_call_with_gas
    \/ gas_estimate_message_gas
    \/ mg_gas_limit
    \/ mg_gas_premium
    \/ mg_gas_fee_cap
    \/ mg_return
    \/ head_change_lock
    \/ head_change_store

Spec == Init /\ [][Next]_vars

-----------------------------------------------------------------------------
(* snapshot_fetch_mainnet *)

\* the chunks of the response's byte stream
Chunks == {<<0>>, <<1>>, <<1, 0>>}
RECURSIVE SeqsUpTo(_, _)
SeqsUpTo(S, n) ==
    IF n = 0 THEN {<<>>}
    ELSE LET shorter == SeqsUpTo(S, n - 1)
         IN  shorter \cup {Append(q, x) : q \in shorter, x \in S}
Streams == SeqsUpTo(Chunks, MaxChunks)

RECURSIVE Flatten(_)
Flatten(chunks) == IF chunks = <<>> THEN <<>> ELSE Head(chunks) \o Flatten(Tail(chunks))

\* Sha256: a digest of DigestLen bytes of all the bytes fed to the hasher,
\* in the order fed.  It stands for SHA-256; only its being a function of the
\* bytes is used.
RECURSIVE HashFold(_, _)
HashFold(bytes, h) ==
    IF bytes = <<>> THEN h
    ELSE HashFold(Tail(bytes), (h * 31 + Head(bytes) + 1) % 256)
Sha256(bytes) == [i \in 1 .. DigestLen |-> HashFold(bytes, (16 * i + 3) % 256)]

LowerHex == <<"0", "1", "2", "3", "4", "5", "6", "7", "8", "9", "a", "b", "c", "d", "e", "f">>
UpperHex == <<"0", "1", "2", "3", "4", "5", "6", "7", "8", "9", "A", "B", "C", "D", "E", "F">>

\* hex::ToHex::encode_hex: two lower-case digits a byte
EncodeHex(bytes) ==
    [i \in 1 .. 2 * Len(bytes) |->
        LET b == bytes[(i + 1) \div 2]
        IN  IF i % 2 = 1 THEN LowerHex[(b \div 16) + 1] ELSE LowerHex[(b % 16) + 1]]
ToUpper(chars) ==
    [i \in 1 .. Len(chars) |->
        IF \E k \in 1 .. 16 : LowerHex[k] = chars[i]
        THEN UpperHex[CHOOSE k \in 1 .. 16 : LowerHex[k] = chars[i]]
        ELSE chars[i]]

\* hex::FromHex for Vec<u8>: digits of either case; Err (None here) on any
\* other character or an odd length
IsHexDigit(c) == \E k \in 1 .. 16 : LowerHex[k] = c \/ UpperHex[k] = c
HexVal(c) == (CHOOSE k \in 1 .. 16 : LowerHex[k] = c \/ UpperHex[k] = c) - 1
FromHex(chars) ==
    IF Len(chars) % 2 # 0 \/ \E i \in 1 .. Len(chars) : ~IsHexDigit(chars[i])
    THEN None
    ELSE Some([i \in 1 .. Len(chars) \div 2 |->
                 16 * HexVal(chars[2 * i - 1]) + HexVal(chars[2 * i])])

\* checksum_from_file, lines 165-181: Err is None
checksum_from_file(content, digest_length) ==
    LET n == IF Len(content) < digest_length * 2 THEN Len(content) ELSE digest_length * 2
        checksum_hex == SubSeq(content, 1, n)
    IN  IF Len(checksum_hex) # digest_length * 2 THEN None ELSE FromHex(checksum_hex)

\* a slip: the comparison is left out
validate_checksum_unchecked(expected_checksum, actual_checksum) == TRUE

\* validate_checksum, lines 186-196: Ok(()) is TRUE
validate_checksum(expected_checksum, actual_checksum) ==
    actual_checksum = expected_checksum

\* what the checksum URL may answer for a snapshot whose bytes are `bytes`:
\* the digest's file in either case, with and without the trailing " -", cut
\* short, with a character that is no digit, or the file of other bytes
ChecksumFiles(bytes) ==
    LET right == EncodeHex(Sha256(bytes))
        other == EncodeHex(Sha256(bytes \o <<1>>))
    IN  {right, right \o <<" ", "-">>, ToUpper(right) \o <<" ", "-">>,
         other \o <<" ", "-">>,
         SubSeq(right, 1, Len(right) - 1),
         <<"g">> \o Tail(right) \o <<" ", "-">>}

SnapErr(e) == [snap EXCEPT !.pc = "done", !.result = "err", !.err = e]

\* line 49: client.get(snapshot_url).send().await?
s_send ==
    /\ snap.pc = "send"
    /\ \/ snap' = SnapErr("send failed")
       \/ snap' = [snap EXCEPT !.pc = "prepare"]
    /\ UNCHANGED gasvars

\* lines 52-73: redirect header, content length, file name, directory
s_prepare ==
    /\ snap.pc = "prepare"
    /\ \/ \E e \in {"invalid redirect location", "Couldn't retrieve content length",
                    "can't extract filename", "create_dir_all failed"} : snap' = SnapErr(e)
       \/ snap' = [snap EXCEPT !.pc = "create"]
    /\ UNCHANGED gasvars

\* line 106: File::create(&snapshot_path).await?, which empties the file
s_file_create ==
    /\ snap.pc = "create"
    /\ \/ snap' = SnapErr("File::create failed")
       \/ snap' = [snap EXCEPT !.pc = "stream", !.file = Some(<<>>), !.had_file = TRUE]
    /\ UNCHANGED gasvars

\* lines 111-117: one chunk is written to the file and fed to the hasher
s_chunk ==
    /\ snap.pc = "stream"
    /\ snap.stream # <<>>
    /\ LET chunk == Head(snap.stream)
       IN  snap' = [snap EXCEPT !.stream = Tail(snap.stream),
                                !.file = Some(snap.file[1] \o chunk),
                                !.hasher = snap.hasher \o chunk]
    /\ UNCHANGED gasvars

\* line 112: the stream yields an error
s_chunk_err ==
    /\ snap.pc = "stream"
    /\ snap.stream # <<>>
    /\ snap' = SnapErr("stream failed")
    /\ UNCHANGED gasvars

\* line 113: write_all fails, having written less than the chunk
s_write_err ==
    /\ snap.pc = "stream"
    /\ snap.stream # <<>>
    /\ \E k \in 0 .. Len(Head(snap.stream)) - 1 :
          snap' = [SnapErr("write_all failed") EXCEPT
                      !.file = Some(snap.file[1] \o SubSeq(Head(snap.stream), 1, k))]
    /\ UNCHANGED gasvars

\* lines 111, 119-120: the stream has ended; the digest is taken
s_finalize ==
    /\ snap.pc = "stream"
    /\ snap.stream = <<>>
    /\ snap' = [snap EXCEPT !.pc = "checksum",
                            !.snapshot_checksum = Some(Sha256(snap.hasher))]
    /\ UNCHANGED gasvars

\* lines 79-80: the checksum file is fetched
s_checksum_get ==
    /\ snap.pc = "checksum"
    /\ \/ \E e \in {"no extension", "checksum request failed"} : snap' = SnapErr(e)
       \/ \E content \in ChecksumFiles(snap.body) :
             snap' = [snap EXCEPT !.pc = "validate", !.checksum_file = Some(content)]
    /\ UNCHANGED gasvars

\* lines 84-92
s_validate ==
    /\ snap.pc = "validate"
    /\ LET checksum_expected == checksum_from_file(snap.checksum_file[1], DigestLen)
       IN  IF checksum_expected = None
           THEN snap' = SnapErr("Invalid content for provided digest length")
           ELSE IF validate_checksum(checksum_expected[1], snap.snapshot_checksum[1])
           THEN snap' = [snap EXCEPT !.pc = "done", !.result = "ok", !.validated = TRUE]
           ELSE snap' = [SnapErr("Checksum incorrect") EXCEPT !.validated = TRUE]
    /\ UNCHANGED gasvars

\* the gas API is idle; a snapshot body and what the path held before are given
SnapInit ==
    /\ req = [method |-> "none", msg |-> Message(0, 0, 0), max_queue_blks |-> 0, nblocksincl |-> 0,
              nblocksincl_top |-> 0]
    /\ heaviest = None
    /\ pc = "idle"
    /\ caller = "rpc"
    /\ msg = req.msg
    /\ rpc = Pending
    /\ calls = <<>>
    /\ touched = {}
    /\ failed_in = ""
    /\ faults = {}
    /\ max_queue_blks = 0
    /\ nblocksincl = 0
    /\ prices = <<>>
    /\ blocks = 0
    /\ ts = 0
    /\ iter = 0
    /\ premium = 0
    /\ path = "none"
    /\ noise = 0
    /\ sim_msg = None
    /\ prior_messages = <<>>
    /\ res = None
    /\ cur_tipset = 0
    /\ readers = 0
    /\ writer = FALSE
    /\ exec_ts = None
    /\ \E st \in Streams, old \in {None, Some(<<0, 0, 1>>)} :
          snap = [SnapIdle EXCEPT !.pc = "send", !.stream = st, !.body = Flatten(st),
                                  !.file = old, !.had_file = (old # None)]

SnapNext ==
    \/ s_send
    \/ s_prepare
    \/ s_file_create
    \/ s_chunk
    \/ s_chunk_err
    \/ s_write_err
    \/ s_finalize
    \/ s_checksum_get
    \/ s_validate

SnapSpec == SnapInit /\ [][SnapNext]_vars

-----------------------------------------------------------------------------
(* Properties of the gas estimation, checked under Spec *)

Range(q) == {q[i] : i \in 1 .. Len(q)}
IsMessageGas == req.method = "GasEstimateMessageGas"
NonGas(m) == <<m.from, m.to, m.value, m.method_num, m.params, m.sequence>>
AllGasSet(m) == m.gas_limit # 0 /\ m.gas_premium # 0 /\ m.gas_fee_cap # 0

\* estimate_gas_premium has returned Ok, and what it returned
PremiumReturned == path # "none" /\ pc # "gp_noise"
PremiumOut == IF caller = "rpc" THEN rpc.value ELSE msg.gas_premium
\* the num_blocks_included the estimator was asked with
RequestedNBlocksIncl == IF caller = "rpc" THEN req.nblocksincl ELSE ComposerNBlocksIncl

\* C1: estimate_message_gas runs the estimator of a gas field only if the
\* field is zero in the request; a field that is non-zero in the request
\* keeps its value, the non-gas fields never change, and with all three set
\* the message comes back as it was, no estimator runs, no collaborator is
\* read and the call cannot fail (also without a heaviest tipset).
C1_OnlyZeroFieldsEstimated ==
    IsMessageGas =>
        /\ NonGas(msg) = NonGas(req.msg)
        /\ ("estimate_gas_limit" \in Range(calls) => req.msg.gas_limit = 0)
        /\ ("estimate_gas_premium" \in Range(calls) => req.msg.gas_premium = 0)
        /\ ("estimate_fee_cap" \in Range(calls) => req.msg.gas_fee_cap = 0)
        /\ (req.msg.gas_limit # 0 => msg.gas_limit = req.msg.gas_limit)
        /\ (req.msg.gas_premium # 0 => msg.gas_premium = req.msg.gas_premium)
        /\ (req.msg.gas_fee_cap # 0 => msg.gas_fee_cap = req.msg.gas_fee_cap)
        /\ (rpc.status = "ok" => rpc.message = Some(msg))
        /\ (AllGasSet(req.msg) =>
                /\ calls = <<>>
                /\ touched = {}
                /\ rpc.status # "err"
                /\ (rpc.status = "ok" => rpc.message = Some(req.msg)))

\* a message with its limit set and its premium left to the estimator came back
C1_Witness ==
    /\ IsMessageGas
    /\ rpc.status = "ok"
    /\ req.msg.gas_limit # 0
    /\ req.msg.gas_premium = 0
    /\ rpc.message[1].gas_premium # 0
    /\ rpc.message[1].gas_limit = req.msg.gas_limit

Rank(c) ==
    CASE c = "estimate_gas_limit" -> 1
      [] c = "estimate_gas_premium" -> 2
      [] c = "estimate_fee_cap" -> 3

\* C2: estimate_message_gas runs the estimators in the order limit, premium,
\* fee cap, and the fee cap is the 20-block projection of the base fee plus
\* the premium as it stands then: the request's premium when that is set
\* (the premium estimator then does not run), the premium just estimated
\* and stored otherwise.
C2_FeeCapFromResolvedPremium ==
    IsMessageGas =>
        /\ \A i, j \in 1 .. Len(calls) : i < j => Rank(calls[i]) < Rank(calls[j])
        /\ (rpc.status = "ok" /\ req.msg.gas_fee_cap = 0) =>
              LET m == rpc.message[1]
                  base == heaviest[1].parent_base_fee
              IN  IF req.msg.gas_premium # 0
                  THEN /\ "estimate_gas_premium" \notin Range(calls)
                       /\ m.gas_fee_cap = FeeCap(base, req.msg.gas_premium, ComposerMaxQueueBlks)
                  ELSE /\ "estimate_gas_premium" \in Range(calls)
                       /\ m.gas_premium = (IF path = "immediate" THEN premium
                                                                 ELSE Jitter(premium, noise))
                       /\ m.gas_fee_cap = ((base * 2699) \div 256) + m.gas_premium

\* both were zero, and the premium that was estimated is not zero
C2_Witness ==
    /\ IsMessageGas
    /\ rpc.status = "ok"
    /\ req.msg.gas_fee_cap = 0
    /\ req.msg.gas_premium = 0
    /\ rpc.message[1].gas_premium > 1

\* C3: when call_with_gas returns Ok, estimate_gas_limit returns -1 for no
\* receipt or a non-zero exit code and gas_used + 200000 for exit code 0; a
\* failing executor or address resolution gives an error, no value.
C3_GasLimitResult ==
    /\ res # None =>
          LET rct == res[1].msg_rct
              gl == IF caller = "rpc" THEN rpc.value ELSE msg.gas_limit
          IN  /\ (caller = "rpc" => rpc.status = "ok")
              /\ IF rct = None THEN gl = -1
                 ELSE IF rct[1].exit_code # 0 THEN gl = -1
                 ELSE gl = rct[1].gas_used + 200000
    /\ (faults \cap {"call_with_gas", "resolve_to_key_addr"} # {}) =>
          /\ rpc.status = "err"
          /\ rpc.message = None
          /\ rpc.value # -1
          /\ msg.gas_limit = req.msg.gas_limit

\* the executor used 100000 gas and GasEstimateGasLimit answered 300000
C3_Witness ==
    /\ req.method = "GasEstimateGasLimit"
    /\ rpc.status = "ok"
    /\ res = Some([msg_rct |-> Some([exit_code |-> 0, gas_used |-> 100000])])
    /\ rpc.value = 300000

\* C4: estimate_gas_premium returns a premium above zero on every path for
\* a noise in the band, and a message estimate_message_gas returns has
\* neither a zero premium nor a zero fee cap.
C4_PremiumNeverZero ==
    /\ (PremiumReturned /\ noise \in NoiseBand) => PremiumOut > 0
    /\ (IsMessageGas /\ rpc.status = "ok" /\ noise \in NoiseBand) =>
          /\ rpc.message[1].gas_premium # 0
          /\ rpc.message[1].gas_fee_cap # 0

\* the integer part of (1 + 1/BASE_FEE_MAX_CHANGE_DENOM)^n * 2^8, by its
\* bracket: F * 8^n <= 2^8 * 9^n < (F + 1) * 8^n
FixedPointImage(n) ==
    LET up == IF n >= 0 THEN Pow(BASE_FEE_MAX_CHANGE_DENOM + 1, n)
                        ELSE Pow(BASE_FEE_MAX_CHANGE_DENOM, -n)
        down == IF n >= 0 THEN Pow(BASE_FEE_MAX_CHANGE_DENOM, n)
                          ELSE Pow(BASE_FEE_MAX_CHANGE_DENOM + 1, -n)
    IN  CHOOSE f \in 0 .. 1024 : f * down <= 256 * up /\ 256 * up < (f + 1) * down

\* C5: estimate_fee_cap returns parent_base_fee * F \div 2^8 + gas_premium,
\* F the fixed-point image of the growth; that is parent_base_fee +
\* gas_premium for 0 blocks, and for max_queue_blks >= 0 never less than
\* that and never less than for one block fewer.
C5_FeeCapFormula ==
    (req.method = "GasEstimateFeeCap" /\ rpc.status = "ok") =>
        LET base == heaviest[1].parent_base_fee
            gp == req.msg.gas_premium
            n == req.max_queue_blks
        IN  /\ rpc.value = ((base * FixedPointImage(n)) \div 256) + gp
            /\ (n = 0 => rpc.value = base + gp)
            /\ (n >= 0 => rpc.value >= base + gp)
            /\ (n >= 1 => rpc.value >= FeeCap(base, gp, n - 1))

\* a fee cap for two blocks, above base fee plus premium
C5_Witness ==
    /\ req.method = "GasEstimateFeeCap"
    /\ rpc.status = "ok"
    /\ req.max_queue_blks = 2
    /\ req.msg.gas_premium # 0
    /\ rpc.value > heaviest[1].parent_base_fee + req.msg.gas_premium

RECURSIVE SumLimits(_)
SumLimits(ps) == IF ps = <<>> THEN 0 ELSE Head(ps).limit + SumLimits(Tail(ps))

\* no sample, or all the samples' limits together leave the target above 0
NoCrossing(ps, nblocks) ==
    ps = <<>> \/ SumLimits(ps) < (BLOCK_GAS_TARGET * nblocks) \div 2

FallbackTable(n) ==
    IF NBlocksInclTop = 1 THEN MIN_GAS_PREMIUM
    ELSE IF n <= 1 THEN 2 * MIN_GAS_PREMIUM
    ELSE IF n = 2 THEN (3 * MIN_GAS_PREMIUM) \div 2
    ELSE MIN_GAS_PREMIUM

\* C6, as claimed: without a crossing the premium before the jitter is 2,
\* 1.5 or 1 times MIN_GAS_PREMIUM for num_blocks_included 0 or 1, 2, and 3
\* or more, and for a noise in [0.99, 1.01] the returned premium is within
\* 1% of it.
C6_FallbackWithinOnePercent ==
    /\ (pc = "gp_noise" /\ NoCrossing(prices, blocks)) =>
          /\ path = "fallback"
          /\ premium = FallbackTable(RequestedNBlocksIncl)
    /\ (PremiumReturned /\ path = "fallback" /\ noise \in NoiseBand) =>
          /\ 99 * premium <= 100 * PremiumOut
          /\ 100 * PremiumOut <= 101 * premium

\* C6, amended: ... the returned premium is within 1% of it but for the one
\* unit the integer division may take: 0.99 * base - 1 <= returned <= 1.01 * base.
C6_FallbackWithinOnePercentLessOne ==
    /\ (pc = "gp_noise" /\ NoCrossing(prices, blocks)) =>
          /\ path = "fallback"
          /\ premium = FallbackTable(RequestedNBlocksIncl)
    /\ (PremiumReturned /\ path = "fallback" /\ noise \in NoiseBand) =>
          /\ 99 * premium - 100 <= 100 * PremiumOut
          /\ 100 * PremiumOut <= 101 * premium

\* the fallback for 2 blocks, returned under the noise 0.99
C6_Witness ==
    /\ req.method = "GasEstimateGasPremium"
    /\ req.nblocksincl = 2
    /\ rpc.status = "ok"
    /\ path = "fallback"
    /\ noise = -42949673
    /\ rpc.value = 148499

\* C7: with a negative max_queue_blks estimate_fee_cap fails or returns
\* what it returns for 0, parent_base_fee + gas_premium, never less.
C7_NegativeQueueBlksAsZero ==
    (req.method = "GasEstimateFeeCap" /\ req.max_queue_blks < 0 /\ rpc.status = "ok") =>
        rpc.value = heaviest[1].parent_base_fee + req.msg.gas_premium

\* C8: a failing collaborator ends the request with an error: without a
\* heaviest tipset every estimator fails at its first read; a failed
\* tipset_from_keys or messages_for_tipset gives no premium; the error of
\* an estimator is the result of estimate_message_gas, which returns no
\* message and runs no estimator after the failed one, nor any twice.
C8_FailuresSurface ==
    /\ (heaviest = None /\ "chain_store" \in touched) => rpc.status = "err"
    /\ (faults # {}) =>
          /\ rpc.status = "err"
          /\ pc = "done"
          /\ Cardinality(faults) = 1
    /\ (faults \cap {"tipset_from_keys", "messages_for_tipset"} # {}) =>
          /\ path = "none"
          /\ msg.gas_premium = req.msg.gas_premium
    /\ (rpc.status = "err") =>
          /\ rpc.message = None
          /\ rpc.value = 0
          /\ calls # <<>>
          /\ failed_in = calls[Len(calls)]
    /\ Cardinality(Range(calls)) = Len(calls)

\* estimate_message_gas estimated a limit, and then a message fetch of the
\* premium's walk failed after a tipset had been sampled
C8_Witness ==
    /\ IsMessageGas
    /\ msg.gas_limit = 300000
    /\ faults = {"messages_for_tipset"}
    /\ iter > 0
    /\ rpc.status = "err"

\* C9: the read guard on mpool.cur_tipset is not alive while call_with_gas
\* runs.
C9_ReadLockNotHeldAcrossExecution ==
    ~(pc = "gl_exec" /\ readers > 0)

\* the sum of the gas limits of the first i samples
PrefixLimits(s, i) == SumLimits(SubSeq(s, 1, i))
\* the target of the sweep: BLOCK_GAS_TARGET * total_blocks_visited / 2
SweepTarget(nblocks) == (BLOCK_GAS_TARGET * nblocks) \div 2
\* the samples in premium-descending order reach the target
HasCrossing(s, t) == \E i \in 1 .. Len(s) : t - PrefixLimits(s, i) <= 0
\* the first sample at which target <= 0
CrossingIndex(s, t) ==
    CHOOSE i \in 1 .. Len(s) :
        /\ t - PrefixLimits(s, i) <= 0
        /\ \A j \in 1 .. (i - 1) : t - PrefixLimits(s, j) > 0

\* C11: when the sweep in premium-descending order crosses the target at a
\* sample that has a sample of non-zero premium immediately before it, the
\* premium before the jitter is floor((prev.premium + crossing.premium) / 2)
\* + 1 for that first crossing sample, whatever samples follow it.
C11_MidpointOfFirstCrossing ==
    pc = "gp_noise" =>
        LET s == SortByPrice(prices)
            t == SweepTarget(blocks)
        IN  (HasCrossing(s, t) /\ CrossingIndex(s, t) > 1
                 /\ s[CrossingIndex(s, t) - 1].price # 0) =>
               LET i == CrossingIndex(s, t)
               IN  premium = ((s[i - 1].price + s[i].price) \div 2) + 1

\* C12: every premium estimate_gas_premium returns is the premium before
\* the jitter times the fixed-point image of a noise that was drawn, over
\* 2^32: on the immediate-crossing, the midpoint and the fallback path.
C12_JitterOnEveryPath ==
    PremiumReturned =>
        /\ "thread_rng" \in touched
        /\ PremiumOut = Jitter(premium, noise)

MinOf(a, b) == IF a <= b THEN a ELSE b
\* the heaviest tipset's parent links to genesis: every tipset of the chain
\* has its parent one epoch below
LinksToGenesis == heaviest[1].epoch
\* min(2 * max(num_blocks_included, 1), links to genesis) for the u64 asked
\* with; from 2^63 on the first argument is beyond every chain
ClaimedSamples ==
    IF NBlocksInclTop = 1 THEN LinksToGenesis
    ELSE MinOf(2 * (IF RequestedNBlocksIncl = 0 THEN 1 ELSE RequestedNBlocksIncl),
               LinksToGenesis)
WalkFaults == {"tipset_from_keys", "messages_for_tipset"}

\* C13: the ancestor walk of estimate_gas_premium ends; it looks up at most
\* 2 * max(num_blocks_included, 1) parents, leaves the loop normally at
\* epoch 0, has sampled min(2 * max(num_blocks_included, 1), links to
\* genesis) tipsets when it is done, and from a heaviest tipset of epoch 0
\* samples nothing, counts no block and takes the premium from the fallback
\* table.
C13_WalkBoundedByGenesis ==
    /\ pc # "panicked"
    /\ heaviest # None =>
          /\ iter <= ClaimedSamples
          /\ (path # "none" => iter = ClaimedSamples)
          /\ (faults \cap WalkFaults # {} => (ts # 0 /\ iter < ClaimedSamples))
          /\ (path # "none" /\ LinksToGenesis = 0) =>
                /\ iter = 0
                /\ blocks = 0
                /\ path = "fallback"
                /\ premium = FallbackTable(RequestedNBlocksIncl)

\* the speculative execution came back without a receipt or with a
\* non-zero exit code
ExecutionFailed ==
    /\ res # None
    /\ (res[1].msg_rct = None \/ res[1].msg_rct[1].exit_code # 0)

\* C14: when estimate_message_gas is asked with gas_limit 0 and the
\* execution gives no receipt or a non-zero exit code, -1 is stored as the
\* gas limit, the premium and the fee cap are still estimated where they are
\* zero, only their estimators can fail the call, and Ok carries gas_limit =
\* -1.  A gas limit the Composer estimated is -1 or at least 200000, and a
\* request whose gas limit is such a value (any non-zero value) does not run
\* the limit estimation.
C14_SentinelLimitKept ==
    IsMessageGas =>
        /\ (req.msg.gas_limit = 0 /\ ExecutionFailed) =>
              /\ msg.gas_limit = -1
              /\ (rpc.status = "err" =>
                     failed_in \in {"estimate_gas_premium", "estimate_fee_cap"})
              /\ (rpc.status = "ok" =>
                     /\ rpc.message[1].gas_limit = -1
                     /\ (req.msg.gas_premium = 0 =>
                            "estimate_gas_premium" \in Range(calls))
                     /\ (req.msg.gas_fee_cap = 0 =>
                            /\ "estimate_fee_cap" \in Range(calls)
                            /\ rpc.message[1].gas_fee_cap # 0))
        /\ (req.msg.gas_limit = 0 /\ rpc.status = "ok") =>
              /\ "estimate_gas_limit" \in Range(calls)
              /\ (rpc.message[1].gas_limit = -1
                     \/ rpc.message[1].gas_limit >= GasLimitBuffer)
        /\ (req.msg.gas_limit = -1 \/ req.msg.gas_limit >= GasLimitBuffer) =>
              /\ "estimate_gas_limit" \notin Range(calls)
              /\ "executor" \notin touched
              /\ msg.gas_limit = req.msg.gas_limit

\* the execution exited with a non-zero code, and the message came back with
\* the limit -1 and an estimated premium and fee cap
C14_Witness ==
    /\ IsMessageGas
    /\ req.msg.gas_limit = 0
    /\ req.msg.gas_premium = 0
    /\ req.msg.gas_fee_cap = 0
    /\ res = Some([msg_rct |-> Some([exit_code |-> 1, gas_used |-> 100000])])
    /\ rpc.status = "ok"
    /\ rpc.message[1].gas_limit = -1
    /\ rpc.message[1].gas_premium > 0
    /\ rpc.message[1].gas_fee_cap > rpc.message[1].gas_premium

-----------------------------------------------------------------------------
(* Properties of the snapshot fetch, checked under SnapSpec *)

ToLower(chars) ==
    [i \in 1 .. Len(chars) |->
        IF \E k \in 1 .. 16 : UpperHex[k] = chars[i]
        THEN LowerHex[CHOOSE k \in 1 .. 16 : UpperHex[k] = chars[i]]
        ELSE chars[i]]

\* C10: snapshot_fetch_mainnet returns Ok only when the whole stream has
\* been written and the digest of the file's bytes, in hex, is what the
\* checksum file begins with (2 * digest_length hex digits of either case);
\* the checksum is looked at only after the download, and no outcome removes
\* a file that was at the path.
C10_OkOnlyOnMatchingChecksum ==
    /\ (snap.result = "ok") =>
          /\ snap.file = Some(snap.body)
          /\ snap.stream = <<>>
          /\ Len(snap.checksum_file[1]) >= 2 * DigestLen
          /\ ToLower(SubSeq(snap.checksum_file[1], 1, 2 * DigestLen))
                = EncodeHex(Sha256(snap.file[1]))
    /\ (snap.checksum_file # None \/ snap.validated) =>
          /\ snap.stream = <<>>
          /\ snap.file = Some(snap.body)
    /\ snap.had_file => snap.file # None
    /\ (snap.pc = "done") => snap.result \in {"ok", "err"}
    /\ (snap.pc = "done" /\ snap.validated /\ snap.result = "err") =>
          /\ snap.err = "Checksum incorrect"
          /\ snap.file = Some(snap.body)

\* a download whose digest is not the expected one: an error, the file kept
C10_Witness ==
    /\ snap.pc = "done"
    /\ snap.result = "err"
    /\ snap.validated
    /\ snap.body # <<>>
    /\ snap.file = Some(snap.body)

====
